---- MODULE Spec2Model ----
(***************************************************************************)
(* Parameter-sweep harness of cp_sim: the Cartesian parameter generator    *)
(* (simulate.get_combinations), the bounded-time runner (__Model__.run,    *)
(* __Model__.__run__), the shared-object variant of the runner             *)
(* (cp_sampler Model.define_params / run_cp / get_results) and the two     *)
(* sweep loops that drive them (scripts/sample_617.py, sample_fcc.py);     *)
(* and, called on their own, the orientation reducer (simulate.            *)
(* get_trajectories, quick_spline, get_grain_dict) and the CSV helpers     *)
(* (general.dict_to_csv, csv_to_dict).                                     *)
(*                                                                         *)
(* Strains are integers in units of 1e-5, so MAX_STRAIN = 0.2 is 20000.    *)
(* A parameter mapping is the sequence of its candidate lists in key       *)
(* order; a combination / param_dict is the sequence of the chosen values  *)
(* in the same order (field f of the mapping is position f).               *)
(***************************************************************************)
EXTENDS Integers, Sequences, FiniteSets, TLC

\* ---------------------------------------------------------------- bounds
MaxFields  == 2    \* fields of a generated parameter mapping
MaxCands   == 2    \* candidate values per field
MaxVal     == 2    \* candidate values are 1..MaxVal
MaxEntries == 2    \* sweep entries of a modelled sweep
MaxOrderCands == 3 \* candidates per field where the order of combinations is examined
MaxSamples == 3    \* samples of a strain list / snapshots of a history
MaxGrains  == 2    \* grains of a history
MaxIds     == 2    \* grain ids passed to the reducer
MaxKeys    == 2    \* keys of a record written to a CSV file
MaxRows    == 3    \* elements of a list in such a record
MaxWeights == 4    \* weights handed to the selection helpers
MaxDensity == 4    \* density asked of get_thinned_list

\* ------------------------------------------------------ program constants
THIN_AMOUNT == 100
MAX_STRAIN  == 20000
NumIntervals == 5
RoundSfDigits == 5
ZFillWidth == 3
GetGrainDictArity == 3
Sample617NumArgs == 4
TwoPiFloor == 628318
EulerValues == <<"phi_1", "Phi", "phi_2">>

\* sample values of the helpers' inputs: strains (units of 1e-5) and angles
\* (units of 1e-5 rad)
StrainVals == {0, 4, 10}
AngleVals  == <<-100000, -1, 0, 1, 100000>>
\* keys and cell values of the records written to CSV files
KeyChars == <<"a", "b", "c", "d">>
AtomVals == <<[t |-> "int", v |-> 1, s |-> <<>>], [t |-> "int", v |-> 2, s |-> <<>>],
              [t |-> "int", v |-> 3, s |-> <<>>], [t |-> "str", v |-> 0, s |-> <<"x">>],
              [t |-> "float", v |-> 2, s |-> <<>>]>>
\* slopes and offsets of a linear angle history
Slopes  == {-1, 0, 1, 2}
Offsets == {0, 30, 100, 300}

\* values of an attribute of the model object: missing, None, or a result
None  == [kind |-> "None"]
Unset == [kind |-> "unset"]
\* no parameters bound yet (every swept mapping has at least one field)
NoParams == <<>>
\* no helper is being called on its own
NoCall == [fn |-> "none"]

VARIABLES
    script,             \* which sweep script is running
    keysMatch,          \* the mapping's keys are exactly the model's parameter names
    all_params_dict,    \* the parameter mapping (sequence of candidate lists)
    param_combinations, \* result of get_combinations (empty before the call)
    i,                  \* 1-based position of the current sweep entry (0 before the loop)
    pc,                 \* driver position
    param_dict,         \* the current entry's parameters
    status,             \* value returned by the last __Model__.run
    selfParams,         \* parameters stored on the model object by define_params
    output,             \* self.output / self.model_output of the model object
    threads,            \* one worker thread per started sweep entry: its position
                        \* (st), the parameters it runs with, and how run_model /
                        \* run_cp_raw ended (outcome)
    local,              \* the driver's unpacked model output
    strain_list,        \* the driver's thinned strain list
    files,              \* files written so far, in order
    exc,                \* exception that stopped the driver, if any
    call,               \* a helper called on its own: its name and arguments
    ret                 \* what that call returned or raised

vars == <<call, ret, script, keysMatch, all_params_dict, param_combinations, i, pc,
          param_dict, status, selfParams, output, threads, local, strain_list,
          files, exc>>

\* ------------------------------------------------------------- generator
Values == 1..MaxVal

RECURSIVE SeqsUpTo(_, _)
SeqsUpTo(S, n) ==
    IF n = 0 THEN {<<>>}
    ELSE LET shorter == SeqsUpTo(S, n - 1)
         IN  shorter \cup {Append(s, x) : s \in {t \in shorter : Len(t) = n - 1}, x \in S}

CandidateLists == SeqsUpTo(Values, MaxCands)
ParamDicts     == SeqsUpTo(CandidateLists, MaxFields)

RECURSIVE ProductLen(_)
ProductLen(lists) ==
    IF lists = <<>> THEN 1 ELSE Len(Head(lists)) * ProductLen(Tail(lists))

RECURSIVE Product(_)
\* mutant of Product: the leftmost list varies fastest
ProductFirstFastest(lists) ==
    IF lists = <<>> THEN << <<>> >>
    ELSE LET head == Head(lists)
             rest == Product(Tail(lists))
             h    == Len(head)
         IN  [k \in 1..(h * Len(rest)) |->
                 <<head[((k - 1) % h) + 1]>> \o rest[((k - 1) \div h) + 1]]

\* itertools.product(*param_list): rightmost list varies fastest
Product(lists) ==
    IF lists = <<>> THEN << <<>> >>
    ELSE LET head == Head(lists)
             rest == Product(Tail(lists))
             n    == Len(rest)
         IN  [k \in 1..(Len(head) * n) |->
                 <<head[((k - 1) \div n) + 1]>> \o rest[((k - 1) % n) + 1]]

\* mutant of get_combinations: the fields are combined in reverse order
get_combinations_reversed(params_dict) ==
    Product([f \in DOMAIN params_dict |-> params_dict[Len(params_dict) + 1 - f]])

\* param_list = list(params_dict.values()); list(itertools.product(*param_list))
get_combinations(params_dict) == Product(params_dict)

\* --------------------------------------------------------------- helpers
RECURSIVE NumDigits(_)
NumDigits(n) == IF n < 10 THEN 1 ELSE 1 + NumDigits(n \div 10)

RECURSIVE Pow10(_)
Pow10(e) == IF e = 0 THEN 1 ELSE 10 * Pow10(e - 1)

\* round_sf on a natural number of strain units: "{:.<sf>g}" keeps sf
\* significant digits, rounding half to even
round_sf(value, sf) ==
    IF NumDigits(value) <= sf THEN value
    ELSE LET scale == Pow10(NumDigits(value) - sf)
             q     == value \div scale
             r     == value % scale
         IN  IF 2 * r > scale \/ (2 * r = scale /\ q % 2 = 1)
             THEN (q + 1) * scale ELSE q * scale

\* mutant of get_thinned_list: the middle indexes run over range(1, density)
get_thinned_list_one_more(unthinned_list, density) ==
    LET src_data_size == Len(unthinned_list)
        middle == [k \in 1..(IF density >= 1 THEN density - 1 ELSE 0) |->
                      ((src_data_size * k) \div density) + 1]
        thin_indexes == <<1>> \o middle \o <<src_data_size>>
    IN  [k \in 1..Len(thin_indexes) |-> unthinned_list[thin_indexes[k]]]

\* thin_indexes = [0] + [floor(step_size*i) for i in range(1, density-1)] + [size-1]
\* (0-based in the code, 1-based here)
get_thinned_list(unthinned_list, density) ==
    LET src_data_size == Len(unthinned_list)
        middle == [k \in 1..(IF density >= 2 THEN density - 2 ELSE 0) |->
                      ((src_data_size * k) \div density) + 1]
        thin_indexes == <<1>> \o middle \o <<src_data_size>>
    IN  [k \in 1..Len(thin_indexes) |-> unthinned_list[thin_indexes[k]]]

RECURSIVE Digits(_)
Digits(n) == IF n < 10 THEN <<n>> ELSE Append(Digits(n \div 10), n % 10)

\* str(n).zfill(width): decimal digits, left-padded with zeros to width
zfill(digits, width) ==
    IF Len(digits) >= width THEN digits
    ELSE [k \in 1..(width - Len(digits)) |-> 0] \o digits

\* mutant of index_str: the index is the 0-based position, str(i).zfill(3)
index_str_from_zero(pos) == zfill(Digits(pos - 1), ZFillWidth)

\* index_str = str(i+1).zfill(3), pos being i+1
index_str(pos) == zfill(Digits(pos), ZFillWidth)

RECURSIVE DigitsValue(_)
DigitsValue(ds) ==
    IF ds = <<>> THEN 0 ELSE 10 * DigitsValue(SubSeq(ds, 1, Len(ds) - 1)) + ds[Len(ds)]

\* ------------------------------------------------------- external solver
\* What drivers.uniaxial_test can hand back: n recorded steps whose strain
\* runs from 0 to top (a full run to MAX_STRAIN, a full-length run that
\* stops short of it, a run cut off after a few steps).
SolverData == {[n |-> 201, top |-> MAX_STRAIN],
               [n |-> 201, top |-> MAX_STRAIN - 1000],
               [n |-> 3,   top |-> MAX_STRAIN]}

RawStrain(d) == [j \in 1..d.n |-> ((j - 1) * d.top) \div (d.n - 1)]

Result(entry, params, data) ==
    [kind |-> "result", entry |-> entry, params |-> params, data |-> data]

\* --------------------------------------------------------------- reducer
\* quick_spline: 1-based index of the first interval [x[k], x[k+1]] holding
\* the target num/den, 0 when the loop falls through to "return None"
quick_spline_index(x_list, num, den) ==
    LET hits == {k \in 1..(Len(x_list) - 1) :
                    den * x_list[k] <= num /\ num <= den * x_list[k + 1]}
    IN  IF hits = {} THEN 0 ELSE CHOOSE k \in hits : \A m \in hits : k <= m

\* outcome of one quick_spline call against a y_list of y_len elements
quick_spline_class(x_list, y_len, num, den) ==
    LET k == quick_spline_index(x_list, num, den)
    IN  IF k = 0 THEN "None"
        ELSE IF k + 1 > y_len THEN "IndexError"
        ELSE IF x_list[k + 1] = x_list[k] THEN "ZeroDivisionError"
        ELSE "value"

\* body of get_grain_dict for at least one selected grain: the targets are
\* max_strain*(k+1)/num_intervals; the first quick_spline call that raises
\* ends the function, otherwise any None makes the result None
reduce_class(strains, hist_len, max_strain) ==
    LET cls == [k \in 1..NumIntervals |->
                   quick_spline_class(strains, hist_len, max_strain * k, NumIntervals)]
        raising == {k \in 1..NumIntervals : cls[k] \in {"IndexError", "ZeroDivisionError"}}
    IN  IF raising # {} THEN cls[CHOOSE k \in raising : \A m \in raising : k <= m]
        ELSE IF \E k \in 1..NumIntervals : cls[k] = "None" THEN "None"
        ELSE "dict"

\* get_grain_dict of scripts/sample_fcc.py: the targets are fractions of
\* the constant MAX_STRAIN
sample_fcc_get_grain_dict(strains, hist_len) ==
    reduce_class(strains, hist_len, MAX_STRAIN)

\* a call of simulate.get_grain_dict with num_args positional arguments
\* binds only when they match its three parameters
call_binds(num_args) == num_args = GetGrainDictArity

\* ------------------------------------------------------------ the sweep
Scripts == {"sample_617", "sample_fcc"}

\* mappings a modelled sweep runs over: at least one field, candidate lists
\* in strictly increasing order as in the scripts' all_params_dict (the
\* candidates of a field are 1, 2, ...), at most MaxEntries combinations
SweepDicts ==
    {d \in ParamDicts :
        /\ d # <<>>
        /\ ProductLen(d) <= MaxEntries
        /\ \A f \in DOMAIN d : \A a \in DOMAIN d[f] : d[f][a] = a}

Init ==
    /\ script \in Scripts
    /\ keysMatch \in BOOLEAN
    /\ all_params_dict \in SweepDicts
    /\ param_combinations = <<>>
    /\ i = 0
    /\ pc = "start"
    /\ param_dict = NoParams
    /\ status = "unset"
    /\ selfParams = NoParams
       \* __Model__.__init__ sets self.outputs, so self.output does not exist
       \* yet; the cp_sampler Model sets self.model_output = None
    /\ output = IF script = "sample_617" THEN Unset ELSE None
    /\ threads = <<>>
    /\ local = Unset
    /\ strain_list = <<>>
    /\ files = <<>>
    /\ exc = "none"
    /\ call = NoCall
    /\ ret = NoCall

\* a written file: its name (index and outcome suffix), the parameters in
\* it, and the loop iteration that wrote it
File(pos, suffix) ==
    [index_str |-> index_str(pos), suffix |-> suffix, params |-> param_dict, entry |-> pos]

\* dict_to_csv(..., f"{results_path}{suffix}.csv") followed by the loop's
\* continue / fall-through to the next iteration
WriteAndContinue(suffix) ==
    /\ files' = Append(files, File(i, suffix))
    /\ pc' = "loop"

Crash(e) ==
    /\ pc' = "crashed"
    /\ exc' = e

\* param_combinations = sim.get_combinations(all_params_dict)
\* mutant of GetCombinations: fields without candidates are left out
GetCombinationsSkipEmpty ==
    /\ pc = "start"
    /\ param_combinations' =
           get_combinations(SelectSeq(all_params_dict, LAMBDA l : l # <<>>))
    /\ pc' = "loop"
    /\ UNCHANGED <<call, ret, script, keysMatch, all_params_dict, i, param_dict, status,
                   selfParams, output, threads, local, strain_list, files, exc>>

GetCombinations ==
    /\ pc = "start"
    /\ param_combinations' = get_combinations(all_params_dict)
    /\ pc' = "loop"
    /\ UNCHANGED <<call, ret, script, keysMatch, all_params_dict, i, param_dict, status,
                   selfParams, output, threads, local, strain_list, files, exc>>

\* for i, combination in enumerate(param_combinations): index_str, param_dict
LoopNext ==
    /\ pc = "loop"
    /\ i < Len(param_combinations)
    /\ i' = i + 1
    /\ param_dict' = param_combinations[i + 1]
    /\ pc' = IF script = "sample_617" THEN "run" ELSE "define_params"
    /\ UNCHANGED <<call, ret, script, keysMatch, all_params_dict, param_combinations, status,
                   selfParams, output, threads, local, strain_list, files, exc>>

LoopEnd ==
    /\ pc = "loop"
    /\ i = Len(param_combinations)
    /\ pc' = "done"
    /\ UNCHANGED <<call, ret, script, keysMatch, all_params_dict, param_combinations, i,
                   param_dict, status, selfParams, output, threads, local, strain_list, files, exc>>

\* model.define_params(**param_dict): binds the keys to the parameter names
DefineParams ==
    /\ pc = "define_params"
    /\ IF keysMatch
       THEN /\ selfParams' = param_dict
            /\ pc' = "thread"
            /\ exc' = exc
       ELSE /\ Crash("TypeError")
            /\ selfParams' = selfParams
    /\ UNCHANGED <<call, ret, script, keysMatch, all_params_dict, param_combinations, i,
                   param_dict, status, output, threads, local, strain_list, files>>

\* __Model__.run: thread = Thread(target=self.__run__, kwargs=param_dict); start()
RunStart ==
    /\ pc = "run"
    /\ threads' = Append(threads, [st |-> "running", params |-> param_dict,
                                   outcome |-> "pending"])
    /\ pc' = "join"
    /\ UNCHANGED <<call, ret, script, keysMatch, all_params_dict, param_combinations, i,
                   param_dict, status, selfParams, output, local, strain_list, files, exc>>

\* sample_fcc: thread = Thread(target=model.run_cp); start()
ThreadStart ==
    /\ pc = "thread"
    /\ threads' = Append(threads, [st |-> "started", params |-> NoParams,
                                   outcome |-> "pending"])
    /\ pc' = "join"
    /\ UNCHANGED <<call, ret, script, keysMatch, all_params_dict, param_combinations, i,
                   param_dict, status, selfParams, output, local, strain_list, files, exc>>

\* thread.join(timeout=max_time) returns because the worker has finished
JoinFinished ==
    /\ pc = "join"
    /\ threads[i].st = "finished"
    /\ pc' = "is_alive"
    /\ UNCHANGED <<call, ret, script, keysMatch, all_params_dict, param_combinations, i,
                   param_dict, status, selfParams, output, threads, local, strain_list, files, exc>>

\* mutant of JoinTimeout: thread.join() without a timeout only returns
\* once the worker has finished
JoinNoTimeout ==
    /\ pc = "join"
    /\ threads[i].st = "finished"
    /\ pc' = "is_alive"
    /\ UNCHANGED <<call, ret, script, keysMatch, all_params_dict, param_combinations, i,
                   param_dict, status, selfParams, output, threads, local, strain_list,
                   files, exc>>

\* thread.join(timeout=max_time) returns because max_time has elapsed
JoinTimeout ==
    /\ pc = "join"
    /\ threads[i].st # "finished"
    /\ pc' = "is_alive"
    /\ UNCHANGED <<call, ret, script, keysMatch, all_params_dict, param_combinations, i,
                   param_dict, status, selfParams, output, threads, local, strain_list, files, exc>>

\* __Model__.run: if thread.is_alive(): return "timeout"
RunIsAlive ==
    /\ pc = "is_alive"
    /\ script = "sample_617"
    /\ IF threads[i].st # "finished"
       THEN /\ status' = "timeout"
            /\ pc' = "returned"
       ELSE /\ status' = status
            /\ pc' = "read_output"
    /\ UNCHANGED <<call, ret, script, keysMatch, all_params_dict, param_combinations, i,
                   param_dict, selfParams, output, threads, local, strain_list, files, exc>>

\* __Model__.run: if self.output == None: return "failed"; return "success"
RunReadOutput ==
    /\ pc = "read_output"
    /\ IF output = Unset
       THEN /\ Crash("AttributeError")
            /\ status' = status
       ELSE /\ status' = IF output = None THEN "failed" ELSE "success"
            /\ pc' = "returned"
            /\ exc' = exc
    /\ UNCHANGED <<call, ret, script, keysMatch, all_params_dict, param_combinations, i,
                   param_dict, selfParams, output, threads, local, strain_list, files>>

\* sample_617: if status != "success": dict_to_csv(..._{status}.csv); continue
AfterRun ==
    /\ pc = "returned"
    /\ IF status # "success"
       THEN WriteAndContinue(status)
       ELSE /\ pc' = "get_output"
            /\ files' = files
    /\ UNCHANGED <<call, ret, script, keysMatch, all_params_dict, param_combinations, i,
                   param_dict, status, selfParams, output, threads, local, strain_list, exc>>

\* sample_617: _, pc_model, results = model.get_output()
GetOutput ==
    /\ pc = "get_output"
    /\ IF output \in {None, Unset}
       THEN /\ Crash(IF output = None THEN "TypeError" ELSE "AttributeError")
            /\ local' = local
       ELSE /\ local' = output
            /\ pc' = "process"
            /\ exc' = exc
    /\ UNCHANGED <<call, ret, script, keysMatch, all_params_dict, param_combinations, i,
                   param_dict, status, selfParams, output, threads, strain_list, files>>

SeqMax(xs) == CHOOSE m \in {xs[k] : k \in DOMAIN xs} : \A k \in DOMAIN xs : xs[k] <= m

\* strain_list = get_thinned_list([round_sf(s[0], 5) for s in results["strain"]], THIN_AMOUNT),
\* tabulated once for every solver result
ThinnedStrainOf ==
    [d \in SolverData |->
        LET raw     == RawStrain(d)
            rounded == [k \in DOMAIN raw |-> round_sf(raw[k], RoundSfDigits)]
        IN  get_thinned_list(rounded, THIN_AMOUNT)]

ThinnedStrain(result) == ThinnedStrainOf[result.data]

\* sample_617 lines 71-73, sample_fcc lines 156-158: the thinned strain and
\* stress lists
ThinLists ==
    /\ pc = "process"
    /\ strain_list' = ThinnedStrain(local)
    /\ pc' = "reduce"
    /\ UNCHANGED <<call, ret, script, keysMatch, all_params_dict, param_combinations, i,
                   param_dict, status, selfParams, output, threads, local, files, exc>>

\* sample_617 lines 74-81: build the history, reduce, write
Process617 ==
    /\ pc = "reduce"
    /\ script = "sample_617"
    /\ LET grain_dict == reduce_class(strain_list, local.data.n, SeqMax(strain_list))
       IN  IF ~call_binds(Sample617NumArgs) THEN Crash("TypeError") /\ files' = files
           ELSE IF grain_dict = "None" THEN WriteAndContinue("unoriented") /\ exc' = exc
           ELSE IF grain_dict = "dict" THEN WriteAndContinue("") /\ exc' = exc
           ELSE Crash(grain_dict) /\ files' = files
    /\ UNCHANGED <<call, ret, script, keysMatch, all_params_dict, param_combinations, i,
                   param_dict, status, selfParams, output, threads, local, strain_list>>

\* mutant of FccIsAlive: the is_alive() test is left out and the driver
\* goes straight on to get_results()
FccIsAliveNoCheck ==
    /\ pc = "is_alive"
    /\ script = "sample_fcc"
    /\ pc' = "get_results"
    /\ UNCHANGED <<call, ret, script, keysMatch, all_params_dict, param_combinations, i,
                   param_dict, status, selfParams, output, threads, local, strain_list,
                   files, exc>>

\* sample_fcc: if thread.is_alive(): dict_to_csv(..._timeout.csv); continue
FccIsAlive ==
    /\ pc = "is_alive"
    /\ script = "sample_fcc"
    /\ IF threads[i].st # "finished"
       THEN WriteAndContinue("timeout")
       ELSE /\ pc' = "get_results"
            /\ files' = files
    /\ UNCHANGED <<call, ret, script, keysMatch, all_params_dict, param_combinations, i,
                   param_dict, status, selfParams, output, threads, local, strain_list, exc>>

\* sample_fcc: model_output = model.get_results(); None -> _failed.csv; unpack
FccGetResults ==
    /\ pc = "get_results"
    /\ IF output = None
       THEN WriteAndContinue("failed") /\ local' = local
       ELSE /\ local' = output
            /\ pc' = "process"
            /\ files' = files
    /\ UNCHANGED <<call, ret, script, keysMatch, all_params_dict, param_combinations, i,
                   param_dict, status, selfParams, output, threads, strain_list, exc>>

\* sample_fcc lines 160-171: model.get_orientation_history() (reads
\* self.model_output again), reduce, write
ProcessFcc ==
    /\ pc = "reduce"
    /\ script = "sample_fcc"
    /\ IF output = None THEN Crash("TypeError") /\ files' = files
       ELSE LET grain_dict == sample_fcc_get_grain_dict(strain_list, output.data.n)
            IN  IF grain_dict = "None" THEN WriteAndContinue("unoriented") /\ exc' = exc
                ELSE IF grain_dict = "dict" THEN WriteAndContinue("") /\ exc' = exc
                ELSE Crash(grain_dict) /\ files' = files
    /\ UNCHANGED <<call, ret, script, keysMatch, all_params_dict, param_combinations, i,
                   param_dict, status, selfParams, output, threads, local, strain_list>>

\* ----------------------------------------------------------- the workers
\* run_cp_raw reads self.tau_sat, self.b, ... from the model object
WorkerReadParams(k) ==
    /\ k \in DOMAIN threads
    /\ threads[k].st = "started"
    /\ threads' = [threads EXCEPT ![k].st = "running", ![k].params = selfParams]
    /\ UNCHANGED <<call, ret, script, keysMatch, all_params_dict, param_combinations, i, pc,
                   param_dict, status, selfParams, output, local, strain_list, files, exc>>

\* the solver returns: self.output = output / self.model_output = (...)
WorkerReturn(k, data) ==
    /\ k \in DOMAIN threads
    /\ threads[k].st = "running"
    /\ keysMatch
    /\ output' = Result(k, threads[k].params, data)
    /\ threads' = [threads EXCEPT ![k].st = "stored", ![k].outcome = "returned"]
    /\ UNCHANGED <<call, ret, script, keysMatch, all_params_dict, param_combinations, i, pc,
                   param_dict, status, selfParams, local, strain_list, files, exc>>

\* run_model / run_cp_raw raises (the solver, or the keyword binding of
\* run_model(**params)): except: self.output = None
WorkerRaise(k) ==
    /\ k \in DOMAIN threads
    /\ threads[k].st = "running"
    /\ output' = None
    /\ threads' = [threads EXCEPT ![k].st = "stored", ![k].outcome = "raised"]
    /\ UNCHANGED <<call, ret, script, keysMatch, all_params_dict, param_combinations, i, pc,
                   param_dict, status, selfParams, local, strain_list, files, exc>>

\* the thread's target has returned: is_alive() is False from now on
WorkerExit(k) ==
    /\ k \in DOMAIN threads
    /\ threads[k].st = "stored"
    /\ threads' = [threads EXCEPT ![k].st = "finished"]
    /\ UNCHANGED <<call, ret, script, keysMatch, all_params_dict, param_combinations, i, pc,
                   param_dict, status, selfParams, output, local, strain_list, files, exc>>

DriverNext ==
    \/ GetCombinations
    \/ LoopNext
    \/ LoopEnd
    \/ DefineParams
    \/ RunStart
    \/ ThreadStart
    \/ JoinFinished
    \/ JoinTimeout
    \/ RunIsAlive
    \/ RunReadOutput
    \/ AfterRun
    \/ GetOutput
    \/ ThinLists
    \/ Process617
    \/ FccIsAlive
    \/ FccGetResults
    \/ ProcessFcc

WorkerNext ==
    \E k \in 1..MaxEntries :
        \/ WorkerReadParams(k)
        \/ \E data \in SolverData : WorkerReturn(k, data)
        \/ WorkerRaise(k)
        \/ WorkerExit(k)

Next == DriverNext \/ WorkerNext

Spec == Init /\ [][Next]_vars

\* scripts/sample_617.py on its own: the driver thread always gets to run
\* and the clock of join(timeout) always advances; the solver is under no
\* obligation to make progress
Init617 == Init /\ script = "sample_617"

Driver617 ==
    \/ GetCombinations
    \/ LoopNext
    \/ LoopEnd
    \/ RunStart
    \/ JoinFinished
    \/ JoinTimeout
    \/ RunIsAlive
    \/ RunReadOutput
    \/ AfterRun
    \/ GetOutput
    \/ ThinLists
    \/ Process617

Worker617 ==
    \E k \in 1..MaxEntries :
        \/ \E data \in SolverData : WorkerReturn(k, data)
        \/ WorkerRaise(k)
        \/ WorkerExit(k)

Next617 == Driver617 \/ Worker617

FairSpec617 == Init617 /\ [][Next617]_vars /\ WF_vars(Driver617)

\* a use of get_combinations on its own, over every mapping within the bounds
InitComb ==
    /\ script = "sample_617"
    /\ keysMatch = TRUE
    /\ all_params_dict \in ParamDicts
    /\ param_combinations = <<>>
    /\ i = 0
    /\ pc = "start"
    /\ param_dict = NoParams
    /\ status = "unset"
    /\ selfParams = NoParams
    /\ output = Unset
    /\ threads = <<>>
    /\ local = Unset
    /\ strain_list = <<>>
    /\ files = <<>>
    /\ exc = "none"
    /\ call = NoCall
    /\ ret = NoCall

NextComb == GetCombinations

SpecComb == InitComb /\ [][NextComb]_vars

\* candidate lists of distinct values, long enough for three candidates
OrderLists == {l \in SeqsUpTo(1..MaxOrderCands, MaxOrderCands) :
                  \A a, b \in DOMAIN l : a < b => l[a] < l[b]}
OrderDicts == SeqsUpTo(OrderLists, MaxFields)

\* a use of get_combinations on mappings of up to MaxOrderCands candidates
InitOrder ==
    /\ script = "sample_617"
    /\ keysMatch = TRUE
    /\ all_params_dict \in OrderDicts
    /\ param_combinations = <<>>
    /\ i = 0
    /\ pc = "start"
    /\ param_dict = NoParams
    /\ status = "unset"
    /\ selfParams = NoParams
    /\ output = Unset
    /\ threads = <<>>
    /\ local = Unset
    /\ strain_list = <<>>
    /\ files = <<>>
    /\ exc = "none"
    /\ call = NoCall
    /\ ret = NoCall

SpecOrder == InitOrder /\ [][NextComb]_vars

\* ------------------------------------------------- the reducer on its own
\* Angles are integers in units of 1e-5 rad.  2*pi lies strictly between
\* TwoPiFloor and TwoPiFloor + 1 units, above the midpoint (628318.53...).
\* An orientation history is a sequence of snapshots, a snapshot a sequence
\* of Euler triples <<phi_1, Phi, phi_2>>, one per grain.  An interpolated
\* value is an exact fraction <<numerator, denominator>>.

Raise(e) == [kind |-> "raise", exc |-> e]
List(items) == [kind |-> "list", items |-> items]
Value(num, den) == [kind |-> "value", num |-> num, den |-> den]

\* __Model__.get_output: return self.output; the attribute does not exist
\* until a worker has stored to it (__init__ sets self.outputs)
get_output == IF output = Unset THEN Raise("AttributeError") ELSE output

\* round_sf(x + 2*math.pi, sf) where x + 2*pi is n units plus a fraction
\* above one half, for n of at least sf digits
round_sf_plus_fraction(n, sf) ==
    IF NumDigits(n) = sf THEN n + 1
    ELSE LET scale == Pow10(NumDigits(n) - sf)
             q     == n \div scale
             r     == n % scale
         IN  IF 2 * r >= scale THEN (q + 1) * scale ELSE q * scale

\* domain = lambda x : round_sf(x, 5) if x>0 else round_sf(x+2*math.pi, 5)
domain(x) ==
    IF x > 0 THEN round_sf(x, RoundSfDigits)
    ELSE round_sf_plus_fraction(x + TwoPiFloor, RoundSfDigits)

\* quick_spline(x_list, y_list, x_value) at x_value = num/den: the first
\* interval holding x_value decides; y_list[i+1] is read before the
\* division; gradient*(x_value - x_list[i]) + y_list[i] as one fraction
quick_spline(x_list, y_list, num, den) ==
    LET k == quick_spline_index(x_list, num, den)
    IN  IF k = 0 THEN None
        ELSE IF k + 1 > Len(y_list) THEN Raise("IndexError")
        ELSE IF x_list[k + 1] = x_list[k] THEN Raise("ZeroDivisionError")
        ELSE LET dx == x_list[k + 1] - x_list[k]
                 dy == y_list[k + 1] - y_list[k]
             IN  Value(y_list[k] * den * dx + dy * (num - den * x_list[k]), den * dx)

\* mutant of get_trajectories: the first snapshot is left out of a trajectory
get_trajectories_skip_first(euler_history, index_list) ==
    IF euler_history = <<>> THEN Raise("IndexError")
    ELSE LET all      == [j \in 1..Len(euler_history[1]) |-> j - 1]
             selected == SelectSeq(all, LAMBDA j :
                             index_list = None
                                 \/ \E p \in DOMAIN index_list.items : index_list.items[p] = j)
         IN  List([r \in DOMAIN selected |->
                      [t \in 1..(Len(euler_history) - 1) |->
                          euler_history[t + 1][selected[r] + 1]]])

\* get_trajectories(euler_history, index_list): one trajectory per grain
\* index i of range(len(euler_history[0])) that is in index_list (every
\* index when index_list is None), each [euler_state[i] for euler_state in
\* euler_history]; indices are 0-based as in the code
get_trajectories(euler_history, index_list) ==
    IF euler_history = <<>> THEN Raise("IndexError")
    ELSE LET all      == [j \in 1..Len(euler_history[1]) |-> j - 1]
             selected == SelectSeq(all, LAMBDA j :
                             index_list = None
                                 \/ \E p \in DOMAIN index_list.items : index_list.items[p] = j)
         IN  IF \E r \in DOMAIN selected : \E t \in DOMAIN euler_history :
                    Len(euler_history[t]) < selected[r] + 1
             THEN Raise("IndexError")
             ELSE List([r \in DOMAIN selected |->
                          [t \in DOMAIN euler_history |->
                              euler_history[t][selected[r] + 1]]])

\* the reduced lists of one trajectory: quick_spline at every target strain
\* for phi_1, then Phi, then phi_2; the first call that raises ends the
\* function, otherwise any None makes the result None
reduce_trajectory(strains, trajectory, max_strain) ==
    LET y(c)  == [t \in DOMAIN trajectory |-> domain(trajectory[t][c])]
        calls == [n \in 1..(Len(EulerValues) * NumIntervals) |->
                     quick_spline(strains, y(((n - 1) \div NumIntervals) + 1),
                                  max_strain * (((n - 1) % NumIntervals) + 1),
                                  NumIntervals)]
        raising == {n \in DOMAIN calls : calls[n].kind = "raise"}
    IN  IF raising # {} THEN calls[CHOOSE n \in raising : \A m \in raising : n <= m]
        ELSE IF \E n \in DOMAIN calls : calls[n] = None THEN None
        ELSE List([k \in 1..NumIntervals |->
                      [c \in DOMAIN EulerValues |-> calls[(c - 1) * NumIntervals + k]]])

\* simulate.get_grain_dict(strain_list, history, grain_ids): cols[k][c] is
\* the column f"{strain_interval}_{euler_value}" of interval k and Euler
\* component c, one element per trajectory in the order they were reduced
get_grain_dict(strains, history, grain_ids) ==
    LET index_list   == List([p \in DOMAIN grain_ids |-> grain_ids[p] - 1])
        trajectories == get_trajectories(history, index_list)
    IN  IF trajectories.kind = "raise" THEN trajectories
        ELSE IF strains = <<>> THEN Raise("ValueError")
        ELSE LET max_strain == SeqMax(strains)
                 reduced == [r \in DOMAIN trajectories.items |->
                                reduce_trajectory(strains, trajectories.items[r], max_strain)]
                 stops   == {r \in DOMAIN reduced : reduced[r].kind # "list"}
             IN  IF stops # {} THEN reduced[CHOOSE r \in stops : \A m \in stops : r <= m]
                 ELSE [kind     |-> "dict",
                       grain_id |-> grain_ids,
                       cols     |-> [k \in 1..NumIntervals |->
                                       [c \in DOMAIN EulerValues |->
                                           [r \in DOMAIN reduced |-> reduced[r].items[k][c]]]]]

\* the sweep's variables, untouched while a helper is called on its own
sweep == <<script, keysMatch, all_params_dict, param_combinations, i, pc,
           param_dict, status, selfParams, output, threads, local, strain_list,
           files, exc>>

NoSweep ==
    /\ script = "sample_617"
    /\ keysMatch = TRUE
    /\ all_params_dict = <<>>
    /\ param_combinations = <<>>
    /\ i = 0
    /\ pc = "done"
    /\ param_dict = NoParams
    /\ status = "unset"
    /\ selfParams = NoParams
    /\ output = Unset
    /\ threads = <<>>
    /\ local = Unset
    /\ strain_list = <<>>
    /\ files = <<>>
    /\ exc = "none"

\* strain lists of up to MaxSamples samples, sorted or not, with or without
\* repeated samples
StrainLists == SeqsUpTo(StrainVals, MaxSamples)

AngleAt(m) == AngleVals[(m % Len(AngleVals)) + 1]

\* a history of n snapshots of g grains whose angles run through AngleVals
History(n, g, shift) ==
    [t \in 1..n |->
        [j \in 1..g |-> <<AngleAt(t + shift), AngleAt(t + shift + j),
                          AngleAt(t + shift + 2 * j)>>]]

Histories ==
    {History(n, g, shift) : n \in 0..MaxSamples, g \in 0..MaxGrains,
                            shift \in 0..(Len(AngleVals) - 1)}

\* grain id lists: distinct 1-based ids in any order, one of them beyond the
\* last grain
GrainIdLists ==
    {l \in SeqsUpTo(1..(MaxGrains + 1), MaxIds) :
        \A a, b \in DOMAIN l : a # b => l[a] # l[b]}

\* a call of get_grain_dict on any modelled strain list, history and grain
\* id list
InitGrain ==
    /\ NoSweep
    /\ \E s \in StrainLists, h \in Histories, g \in GrainIdLists :
          call = [fn |-> "get_grain_dict", strain_list |-> s, history |-> h,
                  grain_ids |-> g]
    /\ ret = NoCall

\* ret = get_grain_dict(strain_list, history, grain_ids)
GetGrainDict ==
    /\ call.fn = "get_grain_dict"
    /\ ret = NoCall
    /\ ret' = get_grain_dict(call.strain_list, call.history, call.grain_ids)
    /\ UNCHANGED <<call, sweep>>

NextGrain == GetGrainDict

SpecGrain == InitGrain /\ [][NextGrain]_vars

\* a single grain whose Euler component c follows the line c*a*strain + b
LinearHistory(strains, a, b) ==
    [t \in DOMAIN strains |->
        << [c \in DOMAIN EulerValues |-> c * a * strains[t] + b] >>]

\* calls on a strictly increasing strain list and a linear single-grain
\* history whose angles all lie in [0, 2*pi)
LinearCalls ==
    {[fn |-> "get_grain_dict", strain_list |-> t[1],
      history |-> LinearHistory(t[1], t[2], t[3]),
      grain_ids |-> <<1>>, a |-> t[2], b |-> t[3]] :
        t \in {u \in StrainLists \X Slopes \X Offsets :
                  /\ \A p, q \in DOMAIN u[1] : p < q => u[1][p] < u[1][q]
                  /\ \A x \in StrainVals : \A c \in DOMAIN EulerValues :
                        c * u[2] * x + u[3] \in 0..TwoPiFloor}}

InitLinear ==
    /\ NoSweep
    /\ call \in LinearCalls
    /\ ret = NoCall

SpecLinear == InitLinear /\ [][NextGrain]_vars

\* index lists handed to get_trajectories: None, or 0-based grain indices
IndexLists == {None} \cup {List(l) : l \in SeqsUpTo(0..MaxGrains, MaxIds)}

TrajCalls ==
    {[fn |-> "get_trajectories", history |-> h, index_list |-> l] :
        h \in Histories, l \in IndexLists}

InitTraj ==
    /\ NoSweep
    /\ call \in TrajCalls
    /\ ret = NoCall

\* ret = get_trajectories(euler_history, index_list)
GetTrajectories ==
    /\ call.fn = "get_trajectories"
    /\ ret = NoCall
    /\ ret' = get_trajectories(call.history, call.index_list)
    /\ UNCHANGED <<call, sweep>>

NextTraj == GetTrajectories

SpecTraj == InitTraj /\ [][NextTraj]_vars

\* ------------------------------------------------------ the CSV helpers
\* A text is a sequence of characters.  A cell value is an atom (an int, a
\* float with a whole value, or a string); a record is the sequence of its
\* (key, value) entries in mapping order, a value being a scalar atom or a
\* list of atoms.

IntAtom(n)   == [t |-> "int",   v |-> n, s |-> <<>>]
FloatAtom(n) == [t |-> "float", v |-> n, s |-> <<>>]
StrAtom(chars) == [t |-> "str",   v |-> 0, s |-> chars]
Scalar(a) == [kind |-> "scalar", atom |-> a]

DigitChars == <<"0", "1", "2", "3", "4", "5", "6", "7", "8", "9">>

DigitText(n) == [k \in DOMAIN Digits(n) |-> DigitChars[Digits(n)[k] + 1]]

\* str(value): "1" for the int 1, "2.0" for the float 2.0, a string as it is
str(a) ==
    IF a.t = "int" THEN DigitText(a.v)
    ELSE IF a.t = "float" THEN DigitText(a.v) \o <<".", "0">>
    ELSE a.s

\* ",".join(texts)
RECURSIVE Join(_)
Join(texts) ==
    IF texts = <<>> THEN <<>>
    ELSE IF Len(texts) = 1 THEN texts[1]
    ELSE texts[1] \o <<",">> \o Join(Tail(texts))

\* text.split(","): one more field than there are commas
RECURSIVE Split(_)
Split(text) ==
    LET commas == {k \in DOMAIN text : text[k] = ","}
    IN  IF commas = {} THEN <<text>>
        ELSE LET k == CHOOSE c \in commas : \A m \in commas : c <= m
             IN  <<SubSeq(text, 1, k - 1)>> \o Split(SubSeq(text, k + 1, Len(text)))

IsDigits(text) ==
    /\ text # <<>>
    /\ \A k \in DOMAIN text : \E d \in DOMAIN DigitChars : text[k] = DigitChars[d]

DigitOf(char) == (CHOOSE d \in DOMAIN DigitChars : DigitChars[d] = char) - 1

\* try: value = float(value) / except: pass, on the texts str can produce:
\* digits, or digits followed by ".0", become a float; anything else stays
\* the string it is
parse_value(text) ==
    LET whole == IF Len(text) > 2 /\ SubSeq(text, Len(text) - 1, Len(text)) = <<".", "0">>
                 THEN SubSeq(text, 1, Len(text) - 2) ELSE text
    IN  IF IsDigits(whole)
        THEN FloatAtom(DigitsValue([k \in DOMAIN whole |-> DigitOf(whole[k])]))
        ELSE StrAtom(text)

\* lines 53-55: every value that is not a list is replaced, in the caller's
\* record, by a one-element list
wrap_scalars(data_dict) ==
    [h \in DOMAIN data_dict |->
        [key   |-> data_dict[h].key,
         value |-> IF data_dict[h].value.kind = "list" THEN data_dict[h].value
                   ELSE List(<<data_dict[h].value.atom>>)]]

\* the longest of the lists (the record has at least one key)
max_list_size(columns) ==
    CHOOSE m \in {Len(columns[h].value.items) : h \in DOMAIN columns} :
        \A h \in DOMAIN columns : Len(columns[h].value.items) <= m

\* mutant of dict_to_csv: a row stops at the first exhausted column instead
\* of leaving the field empty
dict_to_csv_no_padding(data_dict) ==
    IF Len(data_dict) = 0 THEN None
    ELSE LET columns == wrap_scalars(data_dict)
             header  == Join([h \in DOMAIN columns |-> columns[h].key])
             row(r)  == Join(SelectSeq(
                            [h \in DOMAIN columns |->
                                IF r <= Len(columns[h].value.items)
                                THEN str(columns[h].value.items[r]) ELSE <<>>],
                            LAMBDA field : field # <<>>))
         IN  [kind  |-> "file",
              lines |-> <<header>> \o [r \in 1..max_list_size(columns) |-> row(r)]]

\* dict_to_csv(data_dict, csv_path): the lines of the file written, None
\* when the record has no key and nothing is written
dict_to_csv(data_dict) ==
    IF Len(data_dict) = 0 THEN None
    ELSE LET columns == wrap_scalars(data_dict)
             header  == Join([h \in DOMAIN columns |-> columns[h].key])
             row(r)  == Join([h \in DOMAIN columns |->
                                IF r <= Len(columns[h].value.items)
                                THEN str(columns[h].value.items[r]) ELSE <<>>])
         IN  [kind  |-> "file",
              lines |-> <<header>> \o [r \in 1..max_list_size(columns) |-> row(r)]]

\* mutant of csv_to_dict: a column of one value stays a one-element list
csv_to_dict_keep_lists(file) ==
    IF file = None THEN Raise("FileNotFoundError")
    ELSE LET headers   == Split(file.lines[1])
             csv_lines == [r \in 1..(Len(file.lines) - 1) |-> Split(file.lines[r + 1])]
             fields(h) == [r \in DOMAIN csv_lines |-> csv_lines[r][h]]
             column(h) == LET kept == SelectSeq(fields(h), LAMBDA field : field # <<>>)
                          IN  [r \in DOMAIN kept |-> parse_value(kept[r])]
         IN  IF \E r \in DOMAIN csv_lines : Len(csv_lines[r]) < Len(headers)
             THEN Raise("IndexError")
             ELSE [kind    |-> "dict",
                   entries |-> [h \in DOMAIN headers |->
                                  [key |-> headers[h], value |-> List(column(h))]]]

\* csv_to_dict(csv_path): the header names the columns; every non-empty
\* field is appended to its column, parsed as a float when it can be; a
\* column of exactly one value becomes that value
csv_to_dict(file) ==
    IF file = None THEN Raise("FileNotFoundError")
    ELSE LET headers   == Split(file.lines[1])
             csv_lines == [r \in 1..(Len(file.lines) - 1) |-> Split(file.lines[r + 1])]
             fields(h) == [r \in DOMAIN csv_lines |-> csv_lines[r][h]]
             column(h) == LET kept == SelectSeq(fields(h), LAMBDA field : field # <<>>)
                          IN  [r \in DOMAIN kept |-> parse_value(kept[r])]
         IN  IF \E r \in DOMAIN csv_lines : Len(csv_lines[r]) < Len(headers)
             THEN Raise("IndexError")
             ELSE [kind    |-> "dict",
                   entries |-> [h \in DOMAIN headers |->
                                  [key   |-> headers[h],
                                   value |-> IF Len(column(h)) = 1
                                             THEN Scalar(column(h)[1])
                                             ELSE List(column(h))]]]

AtomAt(m) == AtomVals[(m % Len(AtomVals)) + 1]

\* cell values: a scalar, or a list of up to MaxRows atoms
CsvValues ==
    {Scalar(AtomVals[k]) : k \in DOMAIN AtomVals}
        \cup {List([r \in 1..n |-> AtomAt(start + r - 1)]) :
                 n \in 0..MaxRows, start \in 0..(Len(AtomVals) - 1)}

\* records of up to MaxKeys keys, the keys in the order of KeyChars
CsvDicts ==
    UNION {{[h \in 1..n |-> [key |-> <<KeyChars[h]>>, value |-> f[h]]] :
               f \in [1..n -> CsvValues]} : n \in 0..MaxKeys}

InitCsv ==
    /\ NoSweep
    /\ call \in {[fn |-> "dict_to_csv", data_dict |-> d] : d \in CsvDicts}
    /\ ret = NoCall

\* dict_to_csv(data_dict, path): the file, and the caller's record as the
\* call leaves it
DictToCsv ==
    /\ call.fn = "dict_to_csv"
    /\ ret = NoCall
    /\ ret' = [kind      |-> "written",
               file      |-> dict_to_csv(call.data_dict),
               data_dict |-> wrap_scalars(call.data_dict)]
    /\ UNCHANGED <<call, sweep>>

\* csv_dict = csv_to_dict(path) on the file just written
CsvToDict ==
    /\ call.fn = "dict_to_csv"
    /\ ret # NoCall
    /\ ret.kind = "written"
    /\ ret' = [kind      |-> "read",
               file      |-> ret.file,
               data_dict |-> ret.data_dict,
               csv_dict  |-> csv_to_dict(ret.file)]
    /\ UNCHANGED <<call, sweep>>

NextCsv ==
    \/ DictToCsv
    \/ CsvToDict

SpecCsv == InitCsv /\ [][NextCsv]_vars

\* param_dict = dict(zip(param_names, combination)): the field names are the
\* mapping's keys; a candidate is written as an int or as a float
ParameterSet(combination, form) ==
    [h \in DOMAIN combination |->
        [key   |-> <<KeyChars[h]>>,
         value |-> Scalar(IF form = "int" THEN IntAtom(combination[h])
                          ELSE FloatAtom(combination[h]))]]

\* the failure-record path of the sweep on its own: one combination of a
\* mapping (candidates in increasing order) is zipped with the field names
\* and written
InitParams ==
    /\ NoSweep
    /\ \E d \in {m \in ParamDicts :
                    \A f \in DOMAIN m : \A a, b \in DOMAIN m[f] :
                        a < b => m[f][a] < m[f][b]},
          form \in {"int", "float"} :
          \E k \in DOMAIN get_combinations(d) :
              call = [fn |-> "dict_to_csv", mapping |-> d, entry |-> k,
                      data_dict |-> ParameterSet(get_combinations(d)[k], form)]
    /\ ret = NoCall

SpecParams == InitParams /\ [][NextCsv]_vars

\* ------------------------------------------------------ weight selection
\* sorted(value_list, reverse=reverse): a stable sort, so equal values keep
\* their original order in either direction
RECURSIVE sorted(_, _)
sorted(value_list, reverse) ==
    IF value_list = <<>> THEN <<>>
    ELSE LET rest == sorted(SubSeq(value_list, 1, Len(value_list) - 1), reverse)
             x    == value_list[Len(value_list)]
             before(y) == IF reverse THEN y >= x ELSE y <= x
             keep == Cardinality({k \in DOMAIN rest : before(rest[k])})
         IN  SubSeq(rest, 1, keep) \o <<x>> \o SubSeq(rest, keep + 1, Len(rest))

\* the loop of get_sorted over the first k sorted values: for each value the
\* first index i with value == value_list[i] that is not yet in
\* sorted_index_list is appended (indices are 0-based as in the code)
RECURSIVE sorted_index_list(_, _, _)
sorted_index_list(sorted_value_list, value_list, k) ==
    IF k = 0 THEN <<>>
    ELSE LET done == sorted_index_list(sorted_value_list, value_list, k - 1)
             free == {j \in 0..(Len(value_list) - 1) :
                         /\ sorted_value_list[k] = value_list[j + 1]
                         /\ \A p \in DOMAIN done : done[p] # j}
         IN  IF free = {} THEN done
             ELSE Append(done, CHOOSE j \in free : \A m \in free : j <= m)

\* mutant of get_sorted: for each value the last free index is taken
get_sorted_last_index(value_list, reverse) ==
    LET sorted_value_list == sorted(value_list, reverse)
        n == Len(value_list)
        mirrored == sorted_index_list(sorted_value_list,
                                      [k \in 1..n |-> value_list[n + 1 - k]], n)
    IN  [values  |-> sorted_value_list,
         indexes |-> [k \in DOMAIN mirrored |-> n - 1 - mirrored[k]]]

\* get_sorted(value_list, reverse=True)
get_sorted(value_list, reverse) ==
    LET sorted_value_list == sorted(value_list, reverse)
    IN  [values  |-> sorted_value_list,
         indexes |-> sorted_index_list(sorted_value_list, value_list,
                                       Len(sorted_value_list))]

\* weight lists of up to MaxWeights weights
WeightLists == SeqsUpTo(0..MaxVal, MaxWeights)

InitSorted ==
    /\ NoSweep
    /\ call \in {[fn |-> "get_sorted", value_list |-> w] : w \in WeightLists}
    /\ ret = NoCall

\* top_weights, sorted_indexes = get_sorted(model.get_weights())
GetSorted ==
    /\ call.fn = "get_sorted"
    /\ ret = NoCall
    /\ ret' = get_sorted(call.value_list, TRUE)
    /\ UNCHANGED <<call, sweep>>

NextSorted == GetSorted

SpecSorted == InitSorted /\ [][NextSorted]_vars

\* value_list.insert(j, value)
InsertAt(list, j, value) ==
    SubSeq(list, 1, j - 1) \o <<value>> \o SubSeq(list, j, Len(list))

\* the loop of get_top after the first n values (index i = n - 1, 0-based):
\* an empty top list takes the value; a value below the last of a full list
\* is skipped; otherwise the value is inserted before the first smaller one
\* (if any) and, when the list then has num_values elements or more, the
\* last element is popped
RECURSIVE get_top_loop(_, _, _)
get_top_loop(value_list, num_values, n) ==
    IF n = 0 THEN [values |-> <<>>, indexes |-> <<>>]
    ELSE LET top   == get_top_loop(value_list, num_values, n - 1)
             value == value_list[n]
             len   == Len(top.values)
             smaller  == {j \in 1..len : value > top.values[j]}
             inserted ==
                 IF smaller = {} THEN top
                 ELSE LET j == CHOOSE a \in smaller : \A b \in smaller : a <= b
                      IN  [values  |-> InsertAt(top.values, j, value),
                           indexes |-> InsertAt(top.indexes, j, n - 1)]
         IN  IF len = 0
             THEN [values |-> <<value>>, indexes |-> <<n - 1>>]
             ELSE IF value < top.values[len] /\ len = num_values THEN top
             ELSE IF Len(inserted.values) >= num_values
             THEN [values  |-> SubSeq(inserted.values, 1, Len(inserted.values) - 1),
                   indexes |-> SubSeq(inserted.indexes, 1, Len(inserted.indexes) - 1)]
             ELSE inserted

\* get_top(value_list, num_values) of __old__/run_1.py
get_top(value_list, num_values) == get_top_loop(value_list, num_values, Len(value_list))

InitTop ==
    /\ NoSweep
    /\ call \in {[fn |-> "get_top", value_list |-> w, num_values |-> k] :
                    w \in WeightLists, k \in 1..MaxWeights}
    /\ ret = NoCall

\* top_weights, top_indexes = get_top(model.get_weights(), 10)
GetTop ==
    /\ call.fn = "get_top"
    /\ ret = NoCall
    /\ ret' = get_top(call.value_list, call.num_values)
    /\ UNCHANGED <<call, sweep>>

NextTop == GetTop

SpecTop == InitTop /\ [][NextTop]_vars

\* ----------------------------------------- grain labels in the scripts
\* get_grain_dict of scripts/sample_fcc.py on full data: as
\* simulate.get_grain_dict, with the targets taken from the constant
\* MAX_STRAIN instead of max(strain_list)
fcc_get_grain_dict(strains, history, grain_ids) ==
    LET index_list   == List([p \in DOMAIN grain_ids |-> grain_ids[p] - 1])
        trajectories == get_trajectories(history, index_list)
    IN  IF trajectories.kind = "raise" THEN trajectories
        ELSE LET reduced == [r \in DOMAIN trajectories.items |->
                                reduce_trajectory(strains, trajectories.items[r], MAX_STRAIN)]
                 stops   == {r \in DOMAIN reduced : reduced[r].kind # "list"}
             IN  IF stops # {} THEN reduced[CHOOSE r \in stops : \A m \in stops : r <= m]
                 ELSE [kind     |-> "dict",
                       grain_id |-> grain_ids,
                       cols     |-> [k \in 1..NumIntervals |->
                                       [c \in DOMAIN EulerValues |->
                                           [r \in DOMAIN reduced |-> reduced[r].items[k][c]]]]]

\* grain_ids of a script from the labels N of the experimental columns
\* g<N>_phi_1: sample_617 keeps int(N), sample_fcc takes int(N)-1
script_grain_ids(name, labels) ==
    IF name = "sample_fcc" THEN [p \in DOMAIN labels |-> labels[p] - 1]
    ELSE labels

\* the script's call of get_grain_dict: sample_617 hands four positional
\* arguments to simulate.get_grain_dict, sample_fcc calls its own function
script_grain_dict(name, strains, history, labels) ==
    IF name = "sample_fcc"
    THEN fcc_get_grain_dict(strains, history, script_grain_ids(name, labels))
    ELSE IF ~call_binds(Sample617NumArgs) THEN Raise("TypeError")
    ELSE get_grain_dict(strains, history, script_grain_ids(name, labels))

\* strictly increasing strain lists, some of which reach MAX_STRAIN
ScriptStrainLists ==
    {l \in SeqsUpTo(StrainVals \cup {MAX_STRAIN}, MaxSamples) :
        \A p, q \in DOMAIN l : p < q => l[p] < l[q]}

\* labels of the experimental grains: 1-based, within the grains of the
\* history or not
LabelLists == SeqsUpTo(1..MaxGrains, MaxIds)

\* a history of n snapshots of g grains with small positive angles that
\* tell the grains, the components and the snapshots apart
ScriptHistory(n, g) ==
    [t \in 1..n |-> [j \in 1..g |-> [c \in DOMAIN EulerValues |-> 1000 * j + 100 * c + t * t]]]

ScriptHistories == {ScriptHistory(n, g) : n \in 0..MaxSamples, g \in 0..MaxGrains}

InitLabels ==
    /\ NoSweep
    /\ \E name \in Scripts, s \in ScriptStrainLists, h \in ScriptHistories, l \in LabelLists :
          call = [fn |-> "script_grain_dict", script |-> name, strain_list |-> s,
                  history |-> h, labels |-> l]
    /\ ret = NoCall

\* grain_dict = get_grain_dict(strain_list, history, grain_ids ...)
ScriptGrainDict ==
    /\ call.fn = "script_grain_dict"
    /\ ret = NoCall
    /\ ret' = script_grain_dict(call.script, call.strain_list, call.history, call.labels)
    /\ UNCHANGED <<call, sweep>>

NextLabels == ScriptGrainDict

SpecLabels == InitLabels /\ [][NextLabels]_vars

\* ------------------------------------------------------------- thinning
\* the strain and stress lists of one run: as many stress samples as strain
\* samples, each stress sample telling its position
StressOf(strain) == [k \in DOMAIN strain |-> 100 * k]

\* a call of get_thinned_list on the strain list and on the stress list of
\* one run with the same density
InitThin ==
    /\ NoSweep
    /\ \E l \in StrainLists \ {<<>>}, d \in 1..MaxDensity :
          call = [fn |-> "get_thinned_list", unthinned_list |-> l,
                  stress_list |-> StressOf(l), density |-> d]
    /\ ret = NoCall

\* strain_list = get_thinned_list(..., density); stress_list =
\* get_thinned_list(..., density); the function builds a new list and never
\* assigns to its argument
GetThinnedList ==
    /\ call.fn = "get_thinned_list"
    /\ ret = NoCall
    /\ ret' = [strain_list    |-> get_thinned_list(call.unthinned_list, call.density),
               stress_list    |-> get_thinned_list(call.stress_list, call.density),
               unthinned_list |-> call.unthinned_list]
    /\ UNCHANGED <<call, sweep>>

NextThin == GetThinnedList

SpecThin == InitThin /\ [][NextThin]_vars

\* -------------------------------------------- the interpolation on its own
\* x values asked of quick_spline (units of 1e-5): on, between, below and
\* above the samples
SplineTargets == {0, 2, 4, 7, 10, 12}

\* a call of quick_spline on a non-decreasing x_list (repeated values
\* allowed), a y_list of the same length and any x_value
InitSpline ==
    /\ NoSweep
    /\ \E x \in {l \in StrainLists : \A p, q \in DOMAIN l : p <= q => l[p] <= l[q]},
          shift \in 0..(Len(AngleVals) - 1), v \in SplineTargets :
          call = [fn |-> "quick_spline", x_list |-> x,
                  y_list |-> [k \in DOMAIN x |-> domain(AngleAt(k + shift))],
                  x_value |-> v]
    /\ ret = NoCall

\* ret = quick_spline(x_list, y_list, x_value)
QuickSpline ==
    /\ call.fn = "quick_spline"
    /\ ret = NoCall
    /\ ret' = quick_spline(call.x_list, call.y_list, call.x_value, 1)
    /\ UNCHANGED <<call, sweep>>

NextSpline == QuickSpline

SpecSpline == InitSpline /\ [][NextSpline]_vars

\* ---------------------------------------------------------------- claims
Finished(k) == k \in DOMAIN threads /\ threads[k].st = "finished"

\* C1: every call of __Model__.run returns exactly one of the three
\* statuses: "timeout" iff the worker is still alive when the wait is over,
\* "success" iff the worker finished in the wait and run_model raised
\* nothing, "failed" iff the worker finished in the wait and run_model raised.
C1_RunStatusMatchesTask ==
    [][/\ (pc = "is_alive" /\ script = "sample_617" /\ pc' # pc)
            => IF Finished(i) THEN pc' = "read_output"
               ELSE pc' = "returned" /\ status' = "timeout"
       /\ (pc = "read_output" /\ pc' # pc)
            => /\ pc' = "returned"
               /\ status' \in {"success", "failed"}
               /\ status' = "success" <=> threads[i].outcome = "returned"
               /\ status' = "failed" <=> threads[i].outcome = "raised"]_vars

\* C2: nothing an abandoned worker does after its entry timed out is seen
\* by the driver: a "success" status belongs to a worker of the current
\* entry that returned, and get_output() then yields the result computed
\* for the current entry with the current entry's parameters.
C2_DriverSeesOnlyCurrentEntry ==
    script = "sample_617" =>
        /\ (pc \in {"returned", "get_output"} /\ status = "success")
               => threads[i].outcome = "returned"
        /\ pc \in {"process", "reduce"} => (local.entry = i /\ local.params = param_dict)

\* entry k of the sweep is over: the loop has moved past it, or an
\* exception ended it
Ended(k) == k < i \/ (k = i /\ pc \in {"loop", "done", "crashed"})

FilesOf(k) == {j \in DOMAIN files : files[j].entry = k}

\* C3: every sweep entry that is over has exactly one output file, whose
\* suffix is one of timeout / failed / unoriented / none; no entry ends
\* with zero files or with more than one (sweeps whose keys match the
\* model's parameter names).
C3_OneFilePerEntry ==
    keysMatch =>
        \A k \in 1..i : Ended(k) =>
            /\ Cardinality(FilesOf(k)) = 1
            /\ \A j \in FilesOf(k) : files[j].suffix \in {"timeout", "failed", "unoriented", ""}

\* C4: the sweep never stops because of one entry: whatever the outcome of
\* an entry, no exception ends the loop (sweeps whose keys match the
\* model's parameter names).
C4_SweepNeverStops ==
    keysMatch => (pc # "crashed" /\ exc = "none")

\* C5: an exception raised inside run_model while run is waiting never
\* reaches the caller: run raises nothing and returns "failed".
C5_RaiseGivesFailed ==
    script = "sample_617" =>
        /\ exc # "AttributeError"
        /\ (pc = "returned" /\ status # "timeout" /\ threads[i].outcome = "raised")
               => status = "failed"

Alive(k) == k \in DOMAIN threads /\ threads[k].st # "finished"

\* C6: run always returns: the wait at join ends even when run_model never
\* terminates, a worker that is still alive at the return gives "timeout",
\* the driver then writes the _timeout file and goes on to the next
\* iteration, and no step of the driver ends or changes a worker: a worker
\* only stops being alive by returning from its own target.
C6_RunAlwaysReturns ==
    /\ (pc = "join" /\ script = "sample_617") ~> (pc = "returned")
    /\ [](pc = "returned" /\ Alive(i) => status = "timeout")
    /\ (pc = "returned" /\ status = "timeout")
           ~> (pc = "loop" /\ \E j \in FilesOf(i) : files[j].suffix = "timeout")
    /\ [][\A k \in DOMAIN threads :
            /\ pc' # pc => threads'[k] = threads[k]
            /\ (Alive(k) /\ threads'[k].st = "finished") => threads[k].st = "stored"]_vars

\* C6 witness: entry 1 has timed out, its worker is still executing the
\* solver, and the driver is waiting for the worker of entry 2.
C6_Witness ==
    /\ script = "sample_617"
    /\ i = 2
    /\ pc = "join"
    /\ threads[1].st = "running"
    /\ files[1].suffix = "timeout"

\* C7 as stated: at every moment at most one worker thread is alive.
C7_AtMostOneWorkerAlive ==
    Cardinality({k \in DOMAIN threads : Alive(k)}) <= 1

\* C7 as amended: a later worker is started while the worker of entry k is
\* still alive only when entry k has timed out (its _timeout file is
\* written); workers of entries that failed or succeeded are never overlapped.
C7_OverlapOnlyAfterTimeout ==
    \A k \in DOMAIN threads :
        (k < Len(threads) /\ Alive(k)) => \E j \in FilesOf(k) : files[j].suffix = "timeout"

\* C7 witness: the worker of timed-out entry 1 and the worker of entry 2
\* are both executing the solver.
C7_Witness ==
    /\ Len(threads) = 2
    /\ threads[1].st = "running"
    /\ threads[2].st = "running"
    /\ \E j \in FilesOf(1) : files[j].suffix = "timeout"

\* C8: the parameter values a worker builds the solver model from are those
\* of its own sweep entry, also after its entry has timed out and the driver
\* has called define_params for the next entry.
C8_WorkerReadsOwnParams ==
    \A k \in DOMAIN threads :
        threads[k].st # "started" => threads[k].params = param_combinations[k]

\* C9: entries are run and their files written in the order returned by
\* get_combinations: the j-th file written belongs to the j-th combination
\* and carries the index j (position j-1 counted from 0, plus 1), and the
\* worker of an entry is started only when every entry before it has its file.
C9_EntriesInOrder ==
    /\ \A j \in DOMAIN files :
          /\ files[j].entry = j
          /\ DigitsValue(files[j].index_str) = j
          /\ files[j].params = param_combinations[j]
    /\ Len(files) = IF pc \in {"start", "loop", "done"} THEN i ELSE i - 1
    /\ Len(threads) <= Len(files) + 1
    /\ Len(threads) \in {i - 1, i}

\* C9 witness: a sweep of two entries with differing parameters is over
\* and both files are written.
C9_Witness ==
    /\ Len(files) = 2
    /\ files[1].params # files[2].params
    /\ pc = "done"

\* index tuples of the Cartesian product: one position per field
IndexTuples(d) ==
    {t \in [DOMAIN d -> 1..MaxCands] : \A f \in DOMAIN d : t[f] <= Len(d[f])}

ValuesAt(d, t) == [f \in DOMAIN d |-> d[f][t[f]]]

\* C10: for a mapping whose candidate lists are all non-empty,
\* get_combinations returns product(len(values)) combinations, each with one
\* value per field, in field order, from that field's own list, and every
\* element of the Cartesian product (by position) appears exactly once.
C10_CartesianProduct ==
    (pc = "loop" /\ \A f \in DOMAIN all_params_dict : Len(all_params_dict[f]) > 0) =>
        LET d == all_params_dict
            c == param_combinations
            T == IndexTuples(d)
        IN  /\ Len(c) = ProductLen(d)
            /\ Len(c) = Cardinality(T)
            /\ \A k \in DOMAIN c :
                  /\ Len(c[k]) = Len(d)
                  /\ \A f \in DOMAIN d : \E p \in DOMAIN d[f] : c[k][f] = d[f][p]
            /\ \A t \in T :
                  Cardinality({k \in DOMAIN c : c[k] = ValuesAt(d, t)})
                      = Cardinality({u \in T : ValuesAt(d, u) = ValuesAt(d, t)})

\* C10 witness: two fields of two candidates each, one of them listing the
\* same value twice, have been combined.
C10_Witness ==
    /\ pc = "loop"
    /\ Len(all_params_dict) = 2
    /\ Len(all_params_dict[1]) = 2
    /\ Len(all_params_dict[2]) = 2
    /\ all_params_dict[1][1] = all_params_dict[1][2]
    /\ all_params_dict[2][1] # all_params_dict[2][2]
    /\ Len(param_combinations) = 4

\* number of combinations over the fields after field f
Stride(d, f) == ProductLen(SubSeq(d, f + 1, Len(d)))

\* C11: get_combinations returns the combinations in mixed-radix order, the
\* first field varying slowest and the last fastest: combination k takes, for
\* field f, the candidate at position ((k-1) div stride(f)) mod len(f), where
\* stride(f) is the number of combinations of the fields after f.  For two
\* fields of three candidates the nine combinations carry the first field's
\* first value three times, then its second three times, then its third.
C11_MixedRadixOrder ==
    pc = "loop" =>
        LET d == all_params_dict
            c == param_combinations
        IN  /\ Len(c) = ProductLen(d)
            /\ \A k \in DOMAIN c : \A f \in DOMAIN d :
                  c[k][f] = d[f][(((k - 1) \div Stride(d, f)) % Len(d[f])) + 1]
            /\ (Len(d) = 2 /\ Len(d[1]) = 3 /\ Len(d[2]) = 3) =>
                  /\ Len(c) = 9
                  /\ \A k \in 1..9 :
                        /\ c[k][1] = d[1][((k - 1) \div 3) + 1]
                        /\ c[k][2] = d[2][((k - 1) % 3) + 1]

\* C11 witness: two fields of three distinct candidates each have been
\* combined into nine combinations.
C11_Witness ==
    /\ pc = "loop"
    /\ Len(all_params_dict) = 2
    /\ Len(all_params_dict[1]) = 3
    /\ Len(all_params_dict[2]) = 3
    /\ Len(param_combinations) = 9
    /\ param_combinations[1][1] # param_combinations[4][1]

\* C12: when some field of the mapping has no candidate, get_combinations
\* returns the empty list without raising, and the sweep loop then runs no
\* entry (no worker is started) and writes no file.
C12_EmptyFieldEmptySweep ==
    (\E f \in DOMAIN all_params_dict : all_params_dict[f] = <<>>) =>
        /\ pc \in {"start", "loop", "done"}
        /\ pc # "start" => param_combinations = <<>>
        /\ exc = "none"
        /\ i = 0
        /\ threads = <<>>
        /\ files = <<>>

\* C12 witness: a sweep over a mapping with one field without candidates and
\* one field with candidates has ended.
C12_Witness ==
    /\ pc = "done"
    /\ \E f, g \in DOMAIN all_params_dict :
          all_params_dict[f] = <<>> /\ all_params_dict[g] # <<>>
    /\ param_combinations = <<>>
    /\ files = <<>>

SeqMin(xs) == CHOOSE m \in {xs[k] : k \in DOMAIN xs} : \A k \in DOMAIN xs : m <= xs[k]

\* a finished call of get_grain_dict
GrainCalled == call.fn = "get_grain_dict" /\ ret # NoCall

\* the call's arguments fit together: samples in non-decreasing order, one
\* snapshot per sample, and at least one grain id naming a grain of the history
GrainCallAligned ==
    /\ call.strain_list # <<>>
    /\ \A a, b \in DOMAIN call.strain_list :
          a < b => call.strain_list[a] <= call.strain_list[b]
    /\ Len(call.history) = Len(call.strain_list)
    /\ \E p \in DOMAIN call.grain_ids : call.grain_ids[p] \in 1..Len(call.history[1])

\* some target strain max*k/NumIntervals lies outside [min, max] of the list
TargetOutOfRange(strains) ==
    \E k \in 1..NumIntervals :
        \/ SeqMax(strains) * k < NumIntervals * SeqMin(strains)
        \/ SeqMax(strains) * k > NumIntervals * SeqMax(strains)

\* C13: get_grain_dict returns None, never a partial summary, whenever any
\* target strain (the fractions 0.2 .. 1.0 of the maximum strain) lies above
\* max(strain_list) or below min(strain_list); stated for calls whose
\* arguments fit together.
C13_OutOfRangeGivesNone ==
    (GrainCalled /\ GrainCallAligned /\ TargetOutOfRange(call.strain_list)) =>
        ret = None

\* C14: for a strain_list of fewer than 2 samples (0 or 1) get_grain_dict
\* returns None: it neither raises nor returns a summary; stated for calls
\* with a non-empty history and a grain id naming one of its grains.
C14_FewSamplesGiveNone ==
    (/\ GrainCalled
     /\ Len(call.strain_list) < 2
     /\ call.history # <<>>
     /\ \E p \in DOMAIN call.grain_ids : call.grain_ids[p] \in 1..Len(call.history[1])) =>
        ret = None

\* the result whose orientation history the driver is about to reduce:
\* sample_617 unpacks it from get_output, sample_fcc reads it again from the
\* model object
ReducedResult == IF script = "sample_617" THEN local ELSE output

\* get_orientation_history yields one snapshot per recorded step
HistoryLen == ReducedResult.data.n

\* stress_list = get_thinned_list([... for s in results["stress"]], THIN_AMOUNT)
StressLen == Len(get_thinned_list([t \in 1..local.data.n |-> 0], THIN_AMOUNT))

\* C15: in every sweep entry that reaches the reducer, the strain series
\* passed to get_grain_dict has the same length as the stress series and as
\* the orientation history.
C15_SeriesSameLength ==
    (pc = "reduce" /\ ReducedResult # None) =>
        /\ Len(strain_list) = StressLen
        /\ Len(strain_list) = HistoryLen

\* C16: for a strictly increasing strain_list and a single grain whose
\* component follows f = a*strain + b with values inside the normalised range
\* [0, 2*pi), get_grain_dict returns a*target + b at every target strain
\* (all targets lying within the strain list).
C16_LinearIsExact ==
    (/\ GrainCalled
     /\ Len(call.strain_list) >= 2
     /\ ~TargetOutOfRange(call.strain_list)) =>
        /\ ret.kind = "dict"
        /\ \A k \in 1..NumIntervals : \A c \in DOMAIN EulerValues :
              LET v == ret.cols[k][c][1]
              IN  v.num * NumIntervals =
                      v.den * (c * call.a * SeqMax(call.strain_list) * k
                               + NumIntervals * call.b)

\* grains of the history whose trajectory the call reduces
SelectedGrains ==
    {j \in 1..Len(call.history[1]) :
        \E p \in DOMAIN call.grain_ids : call.grain_ids[p] = j}

\* C17: every angle fed to the interpolation lies in [0, 2*pi): a negative
\* input is shifted by one turn (up to the rounding to 5 significant digits)
\* and an input of exactly 0 stays 0.
C17_AnglesNormalised ==
    (GrainCalled /\ ret.kind = "dict") =>
        \A t \in DOMAIN call.history : \A j \in SelectedGrains :
            \A c \in DOMAIN EulerValues :
                LET x == call.history[t][j][c]
                    y == domain(x)
                IN  /\ y \in 0..TwoPiFloor
                    /\ x = 0 => y = 0
                    /\ x < 0 => y \in (x + TwoPiFloor - 10)..(x + TwoPiFloor + 10)

\* a finished call get_trajectories(history, [g]) on a non-empty history with
\* g a 0-based index of one of its grains
TrajCalledOnOne ==
    /\ call.fn = "get_trajectories"
    /\ ret # NoCall
    /\ call.history # <<>>
    /\ call.index_list # None
    /\ Len(call.index_list.items) = 1
    /\ call.index_list.items[1] \in 0..(Len(call.history[1]) - 1)

\* C18: get_trajectories is a pure index projection: for a non-empty history
\* and an index g within range, get_trajectories(history, [g]) returns
\* exactly one trajectory, of length len(history), whose element t is
\* history[t][g]; the call leaves the history as it was.
C18_IndexProjection ==
    /\ [](TrajCalledOnOne =>
            /\ ret.kind = "list"
            /\ Len(ret.items) = 1
            /\ Len(ret.items[1]) = Len(call.history)
            /\ \A t \in DOMAIN call.history :
                  ret.items[1][t] = call.history[t][call.index_list.items[1] + 1])
    /\ [][call.fn = "get_trajectories" => call'.history = call.history]_vars

\* C18 witness: the second grain's trajectory has been taken out of a history
\* of MaxSamples snapshots of two grains.
C18_Witness ==
    /\ TrajCalledOnOne
    /\ Len(call.history) = MaxSamples
    /\ Len(call.history[1]) = 2
    /\ call.index_list.items[1] = 1
    /\ ret.kind = "list"
    /\ ret.items[1][1] # ret.items[1][2]

\* number of elements of a value: a scalar counts as a one-element column
ColumnLen(value) == IF value.kind = "list" THEN Len(value.items) ELSE 1

\* element r of a value's column
ColumnAt(value, r) == IF value.kind = "list" THEN value.items[r] ELSE value.atom

\* the record {"a": [1, 2, 3], "b": [1]}
ExampleRecord ==
    << [key |-> <<"a">>, value |-> List(<<IntAtom(1), IntAtom(2), IntAtom(3)>>)],
       [key |-> <<"b">>, value |-> List(<<IntAtom(1)>>)] >>

PyEq(a, b) ==
    IF a.t = "str" \/ b.t = "str" THEN a.t = b.t /\ a.s = b.s ELSE a.v = b.v

\* C20: writing a record with dict_to_csv and reading the file back with
\* csv_to_dict gives the same keys in the same order, every original scalar
\* as a scalar and every original sequence as a sequence of the same length
\* and elements (records with at least one key).
C20_RoundTrip ==
    (call.fn = "dict_to_csv" /\ ret # NoCall /\ ret.kind = "read"
        /\ call.data_dict # <<>>) =>
        LET d == call.data_dict
            c == ret.csv_dict
        IN  /\ c.kind = "dict"
            /\ Len(c.entries) = Len(d)
            /\ \A h \in DOMAIN d :
                  /\ c.entries[h].key = d[h].key
                  /\ c.entries[h].value.kind = d[h].value.kind
                  /\ ColumnLen(c.entries[h].value) = ColumnLen(d[h].value)
                  /\ \A r \in 1..ColumnLen(d[h].value) :
                        PyEq(ColumnAt(c.entries[h].value, r), ColumnAt(d[h].value, r))

\* C21: for every ParameterSet (of at least one field) built by zipping the
\* field names with a combination from get_combinations, writing it with
\* dict_to_csv and reading it back with csv_to_dict gives the same field
\* names in the same order, each mapped to a scalar numerically equal to the
\* written value.
C21_ParameterSetRoundTrip ==
    (call.fn = "dict_to_csv" /\ ret # NoCall /\ ret.kind = "read"
        /\ call.data_dict # <<>>) =>
        LET d == call.data_dict
            c == ret.csv_dict
        IN  /\ c.kind = "dict"
            /\ [h \in DOMAIN c.entries |-> c.entries[h].key] =
                   [h \in DOMAIN d |-> d[h].key]
            /\ \A h \in DOMAIN d :
                  /\ c.entries[h].value.kind = "scalar"
                  /\ c.entries[h].value.atom.t # "str"
                  /\ c.entries[h].value.atom.v = d[h].value.atom.v

\* C21 witness: a ParameterSet of two fields with different values, one
\* combination of a mapping with several, has been written and read back.
C21_Witness ==
    /\ call.fn = "dict_to_csv"
    /\ ret # NoCall
    /\ ret.kind = "read"
    /\ Len(call.data_dict) = 2
    /\ call.entry > 1
    /\ call.data_dict[1].value.atom.v # call.data_dict[2].value.atom.v
    /\ ret.csv_dict.kind = "dict"

\* C22: get_sorted(weights) returns the weights in non-increasing order
\* together with an index list that is a permutation of 0..len(weights)-1
\* with values[i] == weights[indices[i]] for all i, equal weights appearing
\* in increasing index order; so the first k indices are those of the k
\* largest weights, ties broken by first occurrence.
C22_SortedWithIndices ==
    (call.fn = "get_sorted" /\ ret # NoCall) =>
        LET w == call.value_list
            v == ret.values
            x == ret.indexes
            n == Len(w)
        IN  /\ Len(v) = n
            /\ Len(x) = n
            /\ \A a, b \in 1..n : a < b => v[a] >= v[b]
            /\ {x[a] : a \in 1..n} = 0..(n - 1)
            /\ \A a \in 1..n : v[a] = w[x[a] + 1]
            /\ \A a, b \in 1..n : (a < b /\ v[a] = v[b]) => x[a] < x[b]
            /\ \A k \in 0..n : \A a \in 1..k : \A j \in 0..(n - 1) :
                  (\A b \in 1..k : x[b] # j) =>
                      \/ w[j + 1] < w[x[a] + 1]
                      \/ (w[j + 1] = w[x[a] + 1] /\ x[a] < j)

\* C22 witness: MaxWeights weights holding a tie, not already in order, have
\* been sorted.
C22_Witness ==
    /\ call.fn = "get_sorted"
    /\ ret # NoCall
    /\ Len(call.value_list) = MaxWeights
    /\ call.value_list[1] < call.value_list[2]
    /\ call.value_list[2] = call.value_list[MaxWeights]
    /\ ret.indexes[1] = 1

\* C23: get_top(value_list, num_values) returns the num_values largest
\* values with their original indices: the values are in non-increasing
\* order, values[i] == value_list[indices[i]] for all i, and len(values) ==
\* min(num_values, len(value_list)); three weights ordered like
\* [0.5, 0.2, 0.3] with num_values 2 give the first and the third, indices
\* [0, 2].
C23_TopValues ==
    (call.fn = "get_top" /\ ret # NoCall) =>
        LET w == call.value_list
            v == ret.values
            x == ret.indexes
            m == IF call.num_values < Len(w) THEN call.num_values ELSE Len(w)
        IN  /\ Len(v) = m
            /\ Len(x) = m
            /\ \A a, b \in 1..m : a < b => v[a] >= v[b]
            /\ \A a \in 1..m : x[a] \in 0..(Len(w) - 1) /\ v[a] = w[x[a] + 1]
            /\ \A a \in 1..m : \A j \in 0..(Len(w) - 1) :
                  (\A b \in 1..m : x[b] # j) => w[j + 1] <= v[a]
            /\ (w = <<2, 0, 1>> /\ call.num_values = 2) =>
                  (v = <<2, 1>> /\ x = <<0, 2>>)

\* list(all_params_dict.keys()): the names of the swept parameters, in the
\* order of the mapping's fields
param_names == <<"tau_sat", "b", "tau_0", "gamma_0", "n">>

\* the header of a file written from param_dict alone: dict_to_csv writes
\* one column per key of the record
Columns(file) == {param_names[f] : f \in DOMAIN file.params}

\* C24: when the solver raises during a sweep entry, the failure record
\* written for that entry (the _failed file) contains a reason column.
C24_FailureHasReason ==
    \A j \in DOMAIN files :
        (files[j].suffix = "failed"
            /\ \E k \in DOMAIN threads :
                   threads[k].outcome = "raised" /\ files[j].entry = k)
        => "reason" \in Columns(files[j])

\* C25: grain ids start at 1: whenever a script's call of get_grain_dict
\* returns a summary, an experimental grain labelled g<N> at position p has
\* N in row p of the grain_id column, and row p of every orientation column
\* is the reduction of the trajectory at history index N-1.
C25_GrainIdsStartAtOne ==
    (call.fn = "script_grain_dict" /\ ret # NoCall /\ ret.kind = "dict")
    => \A p \in DOMAIN call.labels :
          LET N == call.labels[p]
              trajectory == [t \in DOMAIN call.history |-> call.history[t][N]]
              reduced == reduce_trajectory(call.strain_list, trajectory, MAX_STRAIN)
          IN  /\ p \in DOMAIN ret.grain_id
              /\ ret.grain_id[p] = N
              /\ \A k \in 1..NumIntervals : \A c \in DOMAIN EulerValues :
                    /\ p \in DOMAIN ret.cols[k][c]
                    /\ reduced.kind = "list"
                    /\ ret.cols[k][c][p] = reduced.items[k][c]

\* the reduced lists of the grain with 1-based id g of the call's history
ReducedGrain(g) ==
    reduce_trajectory(call.strain_list,
                      [t \in DOMAIN call.history |-> call.history[t][g]],
                      SeqMax(call.strain_list))

\* C26: whenever get_grain_dict returns a summary, every orientation column
\* has exactly len(grain_ids) entries and entry j of each column is the
\* interpolated value of grain grain_ids[j], whatever the order of the ids
\* and whether or not they lie within the grains of the history.
C26_SummaryAligned ==
    (call.fn = "get_grain_dict" /\ ret # NoCall /\ ret.kind = "dict")
    => \A k \in 1..NumIntervals : \A c \in DOMAIN EulerValues :
          /\ Len(ret.cols[k][c]) = Len(call.grain_ids)
          /\ \A j \in DOMAIN call.grain_ids :
                call.grain_ids[j] \in DOMAIN call.history[1]
                => ret.cols[k][c][j] = ReducedGrain(call.grain_ids[j]).items[k][c]

\* C27: get_output() never raises and reflects only finished work: at any
\* point of a sweep of sample_617, before the first run included, it returns
\* None unless some worker has finished run_model without an exception.
C27_GetOutputNeverRaises ==
    script = "sample_617"
    => /\ get_output # Raise("AttributeError")
       /\ get_output # None
          => \E k \in DOMAIN threads : threads[k].outcome = "returned"

\* the thinned strain and stress lists have m elements, taken from the
\* call's lists at the same non-decreasing in-range indexes, the first
\* index being the first element and the last index the last element, and
\* the input list is as it was
ThinnedTo(m) ==
    /\ Len(ret.strain_list) = m
    /\ Len(ret.stress_list) = m
    /\ ret.unthinned_list = call.unthinned_list
    /\ \E idx \in [1..m -> DOMAIN call.unthinned_list] :
          /\ idx[1] = 1
          /\ idx[m] = Len(call.unthinned_list)
          /\ \A a, b \in 1..m : a <= b => idx[a] <= idx[b]
          /\ \A a \in 1..m :
                /\ ret.strain_list[a] = call.unthinned_list[idx[a]]
                /\ ret.stress_list[a] = call.stress_list[idx[a]]

\* C28 as stated: for every non-empty list and every density >= 1,
\* get_thinned_list returns exactly density elements at non-decreasing
\* in-range indexes, keeps the first and the last element, leaves the input
\* unchanged, and keeps strain and stress aligned.
C28_ThinnedToDensity ==
    (call.fn = "get_thinned_list" /\ ret # NoCall) => ThinnedTo(call.density)

\* C28 amended: for every non-empty list, get_thinned_list returns exactly
\* density elements when density >= 2 and two elements (the first and the
\* last) when density is 1, at non-decreasing in-range indexes, keeping the
\* first and the last element, the input unchanged and strain and stress
\* aligned sample by sample.
C28_ThinnedFromTwo ==
    (call.fn = "get_thinned_list" /\ ret # NoCall)
    => ThinnedTo(IF call.density = 1 THEN 2 ELSE call.density)

C28_Witness ==
    /\ call.fn = "get_thinned_list"
    /\ ret # NoCall
    /\ call.density = 3
    /\ Len(call.unthinned_list) = 3
    /\ ret.strain_list = call.unthinned_list

\* the intervals [x_list[k], x_list[k+1]] of the call that hold x_value
Containing ==
    {k \in 1..(Len(call.x_list) - 1) :
        call.x_list[k] <= call.x_value /\ call.x_value <= call.x_list[k + 1]}

\* C29: quick_spline never raises: for every non-decreasing x_list (repeated
\* values allowed) with a y_list of the same length and every x_value it
\* returns None when no interval contains x_value, and otherwise a value
\* lying on the line through the ends of the first containing interval.
C29_QuickSplineNeverRaises ==
    (call.fn = "quick_spline" /\ ret # NoCall)
    => /\ ret.kind # "raise"
       /\ ret = None <=> Containing = {}
       /\ ret # None
          => LET k == CHOOSE a \in Containing : \A b \in Containing : a <= b
             IN  ret.num * (call.x_list[k + 1] - call.x_list[k])
                     = ret.den * (call.y_list[k] * (call.x_list[k + 1] - call.x_list[k])
                                  + (call.y_list[k + 1] - call.y_list[k])
                                    * (call.x_value - call.x_list[k]))

\* C30: dict_to_csv leaves the record passed by the caller unchanged: after
\* the call every key maps to the same scalar or the same sequence as
\* before.
C30_RecordUnchanged ==
    (call.fn = "dict_to_csv" /\ ret # NoCall)
    => /\ Len(ret.data_dict) = Len(call.data_dict)
       /\ \A h \in DOMAIN call.data_dict :
             /\ ret.data_dict[h].key = call.data_dict[h].key
             /\ ret.data_dict[h].value = call.data_dict[h].value

====
